---- MODULE Spec2Model ----
(***************************************************************************)
(* A model of the brush GPU glue code: crates/brush-kernel/src/lib.rs      *)
(* (dispatch sizing, shader variants generated by kernel_source_gen!,      *)
(* typed buffers on a cubecl compute client).                              *)
(*                                                                         *)
(* A String is a sequence of one-character strings, so that push,          *)
(* to_uppercase and length are computed character by character.            *)
(* The compute client is modelled by the sequence of operations submitted  *)
(* to it (its queue); a buffer handle is the queue position of the         *)
(* operation that allocated it.                                            *)
(***************************************************************************)
EXTENDS Integers, Sequences, FiniteSets, TLC

VARIABLES
    call,      \* the last library call: its name, arguments and result
    task,      \* the shader variant built by $struct_name::task, or NoTask
    queue,     \* the operations submitted to the compute client, in order
    device,    \* the device (and so the client) the caller computes on
    held,      \* the tensor the caller holds: the last one returned to it
    ncalls,    \* the number of buffer calls made so far
    splats,    \* the Splats model: its sh degrees and rolling statistics
    seen,      \* what has been done to the Splats model since Splats::new
    loader     \* the stream read_dataset_views returned and what it emitted

vars == <<call, task, queue, device, held, ncalls, splats, seen, loader>>

NoCall == [fn |-> "none"]
NoTask == [kernel |-> "none"]
NoDevice == "none"
NoTensor == [handle |-> 0]
NoSplats == [num_points |-> 0]
NoLoader == [state |-> "none"]
Panic == [kind |-> "Panic"]
Pending == [kind |-> "Pending"]     \* the call has not returned yet

(***************************************************************************)
(* Bounds of the model.                                                    *)
(***************************************************************************)
MaxRank == 3        \* the const generic D of calc_cube_count ranges over 0..MaxRank
MaxSize == 2        \* sizes[i] ranges over 0..MaxSize and the sizes of the spec's examples
MaxWg == 2          \* workgroup_size[i] ranges over 0..MaxWg and 8

SeqsUpTo(S, n) == UNION {[1..k -> S] : k \in 0..n}

(***************************************************************************)
(* Dispatch sizing: calc_cube_count.                                       *)
(***************************************************************************)
SizeVals == (0..MaxSize) \cup {10, 16}
WgVals == (0..MaxWg) \cup {8}

\* u32::div_ceil for rhs > 0: quotient and remainder, plus one when the
\* remainder is not zero. (A rhs of 0 panics: see calc_cube_count.)
div_ceil(lhs, rhs) ==
    LET d == lhs \div rhs
        r == lhs % rhs
    IN IF r > 0 THEN d + 1 ELSE d

\* sizes.get(i).unwrap_or(&1), with i counted from 0 as in the source.
get_or_1(sizes, i) == IF i + 1 <= Len(sizes) THEN sizes[i + 1] ELSE 1

calc_cube_count_floor(sizes, workgroup_size) ==
    IF \E i \in 1..3 : workgroup_size[i] = 0 THEN Panic
    ELSE LET execs == [i \in 1..3 |-> get_or_1(sizes, i - 1) \div workgroup_size[i]]
         IN [kind |-> "Static", x |-> execs[1], y |-> execs[2], z |-> execs[3]]

calc_cube_count_clamped(sizes, workgroup_size) ==
    IF \E i \in 1..3 : workgroup_size[i] = 0 THEN Panic
    ELSE LET execs == [i \in 1..3 |->
                          LET c == div_ceil(get_or_1(sizes, i - 1), workgroup_size[i])
                          IN IF c < 1 THEN 1 ELSE c]
         IN [kind |-> "Static", x |-> execs[1], y |-> execs[2], z |-> execs[3]]

\* The three div_ceil calls of the array literal run in order; the first
\* division by zero panics.
calc_cube_count(sizes, workgroup_size) ==
    IF \E i \in 1..3 : workgroup_size[i] = 0 THEN Panic
    ELSE LET execs == [i \in 1..3 |->
                          div_ceil(get_or_1(sizes, i - 1), workgroup_size[i])]
         IN [kind |-> "Static", x |-> execs[1], y |-> execs[2], z |-> execs[3]]

\* One call of calc_cube_count on the inputs the caller holds.
CalcCubeCount ==
    /\ call.fn = "calc_cube_count"
    /\ call.ret = Pending
    /\ call' = [call EXCEPT !.ret = calc_cube_count(call.sizes, call.workgroup_size)]
    /\ UNCHANGED <<task, queue, device, held, ncalls, splats, seen, loader>>

\* The caller's inputs: a sizes array of rank D <= MaxRank and a workgroup size.
InitCubeCount ==
    /\ call \in [fn : {"calc_cube_count"}, sizes : SeqsUpTo(SizeVals, MaxRank),
                 workgroup_size : [1..3 -> WgVals], ret : {Pending}]
    /\ task = NoTask
    /\ queue = <<>>
    /\ device = NoDevice
    /\ held = NoTensor
    /\ ncalls = 0
    /\ splats = NoSplats
    /\ seen = NoSplats
    /\ loader = NoLoader

NextCubeCount == CalcCubeCount

SpecCubeCount == InitCubeCount /\ [][NextCubeCount]_vars

(***************************************************************************)
(* Claims about calc_cube_count.                                           *)
(***************************************************************************)
\* The mathematical ceiling of a / b for b > 0: the least q with q * b >= a.
Ceil(a, b) == CHOOSE q \in 0..a : q * b >= a /\ \A p \in 0..a : p * b >= a => q <= p

Max(a, b) == IF a >= b THEN a ELSE b

IsCubeCountCall == call.fn = "calc_cube_count" /\ call.ret # Pending
PositiveWg == \A i \in 1..3 : call.workgroup_size[i] > 0
CountOf(ret, i) == IF i = 1 THEN ret.x ELSE IF i = 2 THEN ret.y ELSE ret.z

\* C1: for sizes of rank D <= 3 and a workgroup_size with three positive
\* entries, calc_cube_count returns a static triple whose i-th count is
\* ceil(sizes[i] / workgroup_size[i]) for i < D and ceil(1 / workgroup_size[i])
\* for i >= D; ([10],[8,1,1]) -> (2,1,1), ([16,16],[8,8,1]) -> (2,2,1),
\* ([],[8,8,8]) -> (1,1,1).
C1_CubeCountIsCeil ==
    (IsCubeCountCall /\ PositiveWg /\ Len(call.sizes) <= 3) =>
        /\ call.ret # Panic
        /\ call.ret.kind = "Static"
        /\ \A i \in 1..3 :
              CountOf(call.ret, i) =
                  IF i <= Len(call.sizes)
                  THEN Ceil(call.sizes[i], call.workgroup_size[i])
                  ELSE Ceil(1, call.workgroup_size[i])
        /\ (call.sizes = <<10>> /\ call.workgroup_size = <<8, 1, 1>>)
              => call.ret = [kind |-> "Static", x |-> 2, y |-> 1, z |-> 1]
        /\ (call.sizes = <<16, 16>> /\ call.workgroup_size = <<8, 8, 1>>)
              => call.ret = [kind |-> "Static", x |-> 2, y |-> 2, z |-> 1]
        /\ (call.sizes = <<>> /\ call.workgroup_size = <<8, 8, 8>>)
              => call.ret = [kind |-> "Static", x |-> 1, y |-> 1, z |-> 1]

\* C1 witness: a rank-2 call with a remainder in one dimension and a missing
\* third dimension under a workgroup size larger than 1.
C1_Witness ==
    /\ IsCubeCountCall
    /\ call.sizes = <<10, 16>>
    /\ call.workgroup_size = <<8, 8, 8>>
    /\ call.ret = [kind |-> "Static", x |-> 2, y |-> 2, z |-> 1]

MaxFlags == 2       \* a declaration has 0..MaxFlags fields

StructNames == { <<"R","a","s","t","e","r","i","z","e">>,
                 <<"P","r","o","j","e","c","t">> }

FieldNames == { <<"r","a","s","t","e","r","_","u","3","2">>,
                <<"h","a","r","d","_","f","l","o","a","t">>,
                <<"f","o","r","w","a","r","d">>,
                <<"s","h","3">> }

\* The fields of a struct have different names.
FieldLists ==
    {f \in SeqsUpTo(FieldNames, MaxFlags) :
        \A i, j \in 1..Len(f) : f[i] = f[j] => i = j}

KernelDecls == [name : StructNames, fields : FieldLists]

\* $struct_name::task($($field_name: bool),*): the struct with one bool per field.
task_new(decl, flags) == [kernel |-> decl, flags |-> flags]

\* Every variant of every declaration.
Tasks ==
    UNION {{task_new(decl, flags) : flags \in [1..Len(decl.fields) -> BOOLEAN]} :
              decl \in KernelDecls}

LowerChars == <<"a","b","c","d","e","f","g","h","i","j","k","l","m",
                "n","o","p","q","r","s","t","u","v","w","x","y","z">>
UpperChars == <<"A","B","C","D","E","F","G","H","I","J","K","L","M",
                "N","O","P","Q","R","S","T","U","V","W","X","Y","Z">>

\* char::to_uppercase on the characters of an identifier: a lower-case ASCII
\* letter maps to its upper-case letter, a digit or '_' to itself.
char_to_uppercase(c) ==
    IF \E i \in 1..26 : LowerChars[i] = c
    THEN UpperChars[CHOOSE i \in 1..26 : LowerChars[i] = c]
    ELSE c

\* String::to_uppercase
to_uppercase(str) == [i \in 1..Len(str) |-> char_to_uppercase(str[i])]

\* HashMap::insert: the key's entry is set, an older entry of the key replaced.
map_insert(map, key, value) ==
    [k \in DOMAIN map \cup {key} |-> IF k = key THEN value ELSE map[k]]

ShaderDefBoolTrue == [Bool |-> TRUE]     \* ShaderDefValue::Bool(true)

\* The repetition $( ... )* of create_shader_hashmap from field i on.
RECURSIVE insert_defs(_, _, _)
insert_defs(map, t, i) ==
    IF i > Len(t.flags) THEN map
    ELSE insert_defs(
            IF t.flags[i]
            THEN map_insert(map, to_uppercase(t.kernel.fields[i]), ShaderDefBoolTrue)
            ELSE map,
            t, i + 1)

RECURSIVE insert_all_defs(_, _, _)
insert_all_defs(map, t, i) ==
    IF i > Len(t.flags) THEN map
    ELSE insert_all_defs(
            map_insert(map, to_uppercase(t.kernel.fields[i]), [Bool |-> t.flags[i]]),
            t, i + 1)

create_shader_hashmap_all(t) == insert_all_defs(<<>>, t, 1)

create_shader_hashmap(t) == insert_defs(<<>>, t, 1)

\* The repetition $( ... )* of id from field i on: one character per field.
RECURSIVE push_flags(_, _, _)
push_flags(ids, t, i) ==
    IF i > Len(t.flags) THEN ids
    ELSE push_flags(Append(ids, IF t.flags[i] THEN "0" ELSE "1"), t, i + 1)

RECURSIVE push_set_flags(_, _, _)
push_set_flags(ids, t, i) ==
    IF i > Len(t.flags) THEN ids
    ELSE push_set_flags(IF t.flags[i] THEN Append(ids, "0") ELSE ids, t, i + 1)

id_set_flags_only(t) == push_set_flags(t.kernel.name, t, 1)

\* CubeTask::id
id(t) == push_flags(t.kernel.name, t, 1)

\* $module::WORKGROUP_SIZE, the constant of the kernel's shader module.
WORKGROUP_SIZE(decl) ==
    IF decl.name = <<"R","a","s","t","e","r","i","z","e">>
    THEN <<16, 16, 1>>
    ELSE <<256, 1, 1>>

\* source(): the naga module $module::create_shader_source generates from
\* the define set. Whether naga's validator accepts the module and whether
\* its WGSL writer can write it are properties of the generated module.
source(t, validates, writes) ==
    [shader_defs |-> create_shader_hashmap(t), validates |-> validates,
     writes |-> writes]

module_to_compiled_unvalidated(module, workgroup_size) ==
    IF ~module.writes THEN Panic
    ELSE [source |-> <<"wgsl", module.shader_defs>>,
          cube_dim |-> [x |-> workgroup_size[1], y |-> workgroup_size[2],
                        z |-> workgroup_size[3]],
          shared_mem_bytes |-> 0]

\* module_to_compiled: Validator::validate(..).unwrap() panics on a module
\* that fails validation, write_string(..).expect(..) on one that cannot be
\* written as WGSL.
module_to_compiled(module, workgroup_size) ==
    IF ~module.validates THEN Panic
    ELSE IF ~module.writes THEN Panic
    ELSE [source |-> <<"wgsl", module.shader_defs>>,
          cube_dim |-> [x |-> workgroup_size[1], y |-> workgroup_size[2],
                        z |-> workgroup_size[3]],
          shared_mem_bytes |-> 0]

\* CubeTask::compile
compile(t, validates, writes) ==
    module_to_compiled(source(t, validates, writes), WORKGROUP_SIZE(t.kernel))

Compile ==
    /\ task # NoTask
    /\ \E validates, writes \in BOOLEAN :
          call' = [fn |-> "compile", module |-> source(task, validates, writes),
                   ret |-> compile(task, validates, writes)]
    /\ UNCHANGED <<task, queue, device, held, ncalls, splats, seen, loader>>

Id ==
    /\ task # NoTask
    /\ call' = [fn |-> "id", ret |-> id(task)]
    /\ UNCHANGED <<task, queue, device, held, ncalls, splats, seen, loader>>

CreateShaderHashmap ==
    /\ task # NoTask
    /\ call' = [fn |-> "create_shader_hashmap", ret |-> create_shader_hashmap(task)]
    /\ UNCHANGED <<task, queue, device, held, ncalls, splats, seen, loader>>

\* A variant some call site built with task(...).
InitKernel ==
    /\ call = NoCall
    /\ task \in Tasks
    /\ queue = <<>>
    /\ device = NoDevice
    /\ held = NoTensor
    /\ ncalls = 0
    /\ splats = NoSplats
    /\ seen = NoSplats
    /\ loader = NoLoader

NextKernel == Id \/ CreateShaderHashmap \/ Compile

SpecKernel == InitKernel /\ [][NextKernel]_vars

(***************************************************************************)
(* Claims about the shader variants.                                       *)
(***************************************************************************)
FlagChars(flags) == [i \in 1..Len(flags) |-> IF flags[i] THEN "1" ELSE "0"]

\* C3 (as claimed): the identity of a variant is the kernel name followed by
\* one character per flag in declaration order, '1' if the flag is set and
\* '0' if it is not.
C3_IdIsNameThenFlagBits ==
    call.fn = "id" => call.ret = task.kernel.name \o FlagChars(task.flags)

\* The variants of the same kernel as the task.
Variants == {t \in Tasks : t.kernel = task.kernel}
DifferAt(f, g) == {i \in 1..Len(f) : f[i] # g[i]}

\* C4: for a kernel with n flags the identity is deterministic and injective
\* on flag assignments: the same flag vector gives the same identity, a
\* vector differing in a single flag (indeed in any flag) gives a different
\* one, and the identity's length is len(kernel name) + n.
C4_IdInjective ==
    call.fn = "id" =>
        /\ Len(call.ret) = Len(task.kernel.name) + Len(task.kernel.fields)
        /\ \A t \in Variants :
              /\ t.flags = task.flags => id(t) = call.ret
              /\ Cardinality(DifferAt(t.flags, task.flags)) = 1 => id(t) # call.ret
              /\ t.flags # task.flags => id(t) # call.ret

\* C4 witness: the identity of a variant with two flags, one set and one not.
C4_Witness ==
    /\ call.fn = "id"
    /\ task.flags = <<TRUE, FALSE>>
    /\ Len(call.ret) = Len(task.kernel.name) + 2

TrueFields(t) == {i \in 1..Len(t.flags) : t.flags[i]}

\* C5: the define set built for a variant has exactly one entry per flag
\* whose value is true, keyed by the upper-cased flag name and mapped to
\* boolean true, and no entry for a flag whose value is false; with all
\* flags false it is empty.
C5_DefinesAreTheTrueFlags ==
    call.fn = "create_shader_hashmap" =>
        /\ DOMAIN call.ret = {to_uppercase(task.kernel.fields[i]) : i \in TrueFields(task)}
        /\ Cardinality(DOMAIN call.ret) = Cardinality(TrueFields(task))
        /\ \A k \in DOMAIN call.ret : call.ret[k] = [Bool |-> TRUE]
        /\ \A i \in 1..Len(task.flags) :
              ~task.flags[i] => to_uppercase(task.kernel.fields[i]) \notin DOMAIN call.ret
        /\ TrueFields(task) = {} => DOMAIN call.ret = {}

\* C5 witness: the define set of Rasterize { raster_u32: true, sh3: false }.
C5_Witness ==
    /\ call.fn = "create_shader_hashmap"
    /\ task.kernel.fields = << <<"r","a","s","t","e","r","_","u","3","2">>, <<"s","h","3">> >>
    /\ task.flags = <<TRUE, FALSE>>
    /\ DOMAIN call.ret = { <<"R","A","S","T","E","R","_","U","3","2">> }

(***************************************************************************)
(* Typed buffers on the compute client.                                    *)
(*                                                                         *)
(* A JitTensor is [client, handle, shape, device, strides, elem]: elem is  *)
(* the element-type parameter E, the rank D is Len(shape). A library       *)
(* function that is handed a client takes the client's queue q and returns *)
(* [ret, queue]: its result and the queue with what it submitted.          *)
(***************************************************************************)
MaxCalls == 3       \* the caller makes at most MaxCalls buffer calls
MaxPodElems == 1    \* a Pod value has 0..MaxPodElems elements

\* The build configuration: #[cfg(test)] holds only in the crate's own test
\* build; the shipped library is the cfg(not(test)) build.
cfg_test == FALSE

Devices == {"WgpuDevice0", "WgpuDevice1"}

\* R::client(&device): each device has one client.
client_of(dev) == <<"client", dev>>

ElemTypes == {"f32", "u32", "f16"}

\* core::mem::size_of::<E>()
size_of(E) == IF E = "f16" THEN 2 ELSE 4

Shapes == {<<>>, <<0>>, <<3>>, <<1000, 3>>}

RECURSIVE product(_)
product(dims) == IF dims = <<>> THEN 1 ELSE Head(dims) * product(Tail(dims))

\* Shape::num_elements
num_elements(shape) == product(shape)

\* The strides JitTensor::new_contiguous gives a shape: the last dimension
\* has stride 1, every other one the product of the dimensions after it.
contiguous_strides(shape) ==
    [i \in 1..Len(shape) |-> product(SubSeq(shape, i + 1, Len(shape)))]

JitTensor_new(client, handle, shape, dev, strides, E) ==
    [client |-> client, handle |-> handle, shape |-> shape, device |-> dev,
     strides |-> strides, elem |-> E]

JitTensor_new_contiguous(client, dev, shape, handle, E) ==
    JitTensor_new(client, handle, shape, dev, contiguous_strides(shape), E)

\* client.empty(size): reserves size bytes; the new handle is the position
\* of the request in the queue.
client_empty(client, size, q) ==
    [handle |-> Len(q) + 1,
     queue |-> Append(q, [op |-> "empty", client |-> client, size |-> size])]

\* client.create(bytes): uploads the bytes to a new allocation.
client_create(client, bytes, q) ==
    [handle |-> Len(q) + 1,
     queue |-> Append(q, [op |-> "create", client |-> client, data |-> bytes])]

\* client.execute(kernel, count, bindings)
client_execute(client, kernel, count, bindings, q) ==
    Append(q, [op |-> "execute", client |-> client, kernel |-> kernel,
               count |-> count, bindings |-> bindings])

\* The bytes of the allocation behind a handle.
alloc_len(q, handle) ==
    IF q[handle].op = "create" THEN Len(q[handle].data) ELSE q[handle].size

bitcast_tensor_copy(tensor, EOut, q) ==
    LET buffer == client_empty(tensor.client,
                               num_elements(tensor.shape) * size_of(EOut), q)
    IN [ret |-> JitTensor_new_contiguous(tensor.client, tensor.device, tensor.shape,
                                         buffer.handle, EOut),
        queue |-> buffer.queue]

\* bitcast_tensor::<D, R, EIn, EOut>(tensor)
bitcast_tensor(tensor, EOut, q) ==
    [ret |-> JitTensor_new(tensor.client, tensor.handle, tensor.shape,
                           tensor.device, tensor.strides, EOut),
     queue |-> q]

\* JitBackend::float_add_scalar(f, s) of burn-jit on a tensor nobody else
\* holds: one kernel execution that rewrites the buffer in place.
float_add_scalar(f, q) ==
    [ret |-> f,
     queue |-> client_execute(f.client, "float_add_scalar",
                              [kind |-> "Static", x |-> 1, y |-> 1, z |-> 1],
                              <<f.handle>>, q)]

create_tensor_len_bytes(E, shape, dev, client, q) ==
    LET buffer == client_empty(client, num_elements(shape), q)
    IN [ret |-> JitTensor_new_contiguous(client, dev, shape, buffer.handle, E),
        queue |-> buffer.queue]

\* create_tensor::<E, D, R>(shape, device, client)
create_tensor(E, shape, dev, client, q) ==
    LET bufsize == num_elements(shape) * size_of(E)
        buffer == client_empty(client, bufsize, q)
    IN IF cfg_test
       THEN LET f == JitTensor_new_contiguous(client, dev, shape, buffer.handle, "f32")
                r == float_add_scalar(f, buffer.queue)
            IN bitcast_tensor(r.ret, E, r.queue)
       ELSE [ret |-> JitTensor_new_contiguous(client, dev, shape, buffer.handle, E),
             queue |-> buffer.queue]

\* A Pod value is [width, elems]: elems integers of width bytes each
\* (u8, u16 and u32 fields or array elements), laid out without padding.
PodWidths == {1, 2, 4}
PodVals == [width : PodWidths, elems : SeqsUpTo({7}, MaxPodElems)]

RECURSIVE pow256(_)
pow256(k) == IF k = 0 THEN 1 ELSE 256 * pow256(k - 1)

\* The little-endian bytes of one element.
le_bytes(x, width) == [k \in 1..width |-> (x \div pow256(k - 1)) % 256]

RECURSIVE flatten(_)
flatten(seqs) == IF seqs = <<>> THEN <<>> ELSE Head(seqs) \o flatten(Tail(seqs))

\* bytemuck::bytes_of(&val): the value's memory, element after element.
bytes_of(val) == flatten([i \in 1..Len(val.elems) |-> le_bytes(val.elems[i], val.width)])

\* create_uniform_buffer::<R, T>(val, device, client)
create_uniform_buffer(val, dev, client, q) ==
    LET bytes == bytes_of(val)
        shape == Len(bytes) \div 4
        buffer == client_create(client, bytes, q)
    IN [ret |-> JitTensor_new_contiguous(client, dev, <<shape>>, buffer.handle, "u32"),
        queue |-> buffer.queue]

\* wg::Uniforms { wg_size_x, wg_size_y, wg_size_z }: three u32 fields.
wg_Uniforms(x, y, z) == [width |-> 4, elems |-> <<x, y, z>>]

WgSizes == {<<1, 1, 1>>, <<256, 1, 1>>, <<8, 8, 1>>}

create_dispatch_buffer_synced(thread_nums, wg_size, q) ==
    LET client == thread_nums.client
        uniforms_buffer == create_uniform_buffer(
            wg_Uniforms(wg_size[1], wg_size[2], wg_size[3]),
            thread_nums.device, client, q)
        ret == create_tensor("u32", <<3>>, thread_nums.device, client,
                             uniforms_buffer.queue)
        q1 == client_execute(client, "CreateDispatchBuffer",
                             [kind |-> "Static", x |-> 1, y |-> 1, z |-> 1],
                             <<uniforms_buffer.ret.handle, thread_nums.handle,
                               ret.ret.handle>>, ret.queue)
    IN [ret |-> ret.ret,
        queue |-> Append(q1, [op |-> "sync", client |-> client])]

create_dispatch_buffer_data_first(thread_nums, wg_size, q) ==
    LET client == thread_nums.client
        uniforms_buffer == create_uniform_buffer(
            wg_Uniforms(wg_size[1], wg_size[2], wg_size[3]),
            thread_nums.device, client, q)
        ret == create_tensor("u32", <<3>>, thread_nums.device, client,
                             uniforms_buffer.queue)
    IN [ret |-> ret.ret,
        queue |-> client_execute(client, "CreateDispatchBuffer",
                                 [kind |-> "Static", x |-> 1, y |-> 1, z |-> 1],
                                 <<thread_nums.handle, uniforms_buffer.ret.handle,
                                   ret.ret.handle>>,
                                 ret.queue)]

\* create_dispatch_buffer::<R>(thread_nums, wg_size)
create_dispatch_buffer(thread_nums, wg_size, q) ==
    LET client == thread_nums.client
        uniforms_buffer == create_uniform_buffer(
            wg_Uniforms(wg_size[1], wg_size[2], wg_size[3]),
            thread_nums.device, client, q)
        ret == create_tensor("u32", <<3>>, thread_nums.device, client,
                             uniforms_buffer.queue)
    IN [ret |-> ret.ret,
        queue |-> client_execute(client, "CreateDispatchBuffer",
                                 [kind |-> "Static", x |-> 1, y |-> 1, z |-> 1],
                                 <<uniforms_buffer.ret.handle, thread_nums.handle,
                                   ret.ret.handle>>,
                                 ret.queue)]

(***************************************************************************)
(* The caller's calls.                                                     *)
(***************************************************************************)
CreateTensor ==
    /\ ncalls < MaxCalls
    /\ \E E \in ElemTypes, shape \in Shapes :
          LET r == create_tensor(E, shape, device, client_of(device), queue)
          IN /\ call' = [fn |-> "create_tensor", E |-> E, shape |-> shape, ret |-> r.ret]
             /\ held' = r.ret
             /\ queue' = r.queue
    /\ ncalls' = ncalls + 1
    /\ UNCHANGED <<task, device, splats, seen, loader>>

CreateUniformBuffer ==
    /\ ncalls < MaxCalls
    /\ \E val \in PodVals :
          LET r == create_uniform_buffer(val, device, client_of(device), queue)
          IN /\ call' = [fn |-> "create_uniform_buffer", val |-> val, ret |-> r.ret]
             /\ held' = r.ret
             /\ queue' = r.queue
    /\ ncalls' = ncalls + 1
    /\ UNCHANGED <<task, device, splats, seen, loader>>

BitcastTensor ==
    /\ ncalls < MaxCalls
    /\ held # NoTensor
    /\ \E EOut \in ElemTypes :
          LET r == bitcast_tensor(held, EOut, queue)
          IN /\ call' = [fn |-> "bitcast_tensor", tensor |-> held, EOut |-> EOut,
                         ret |-> r.ret]
             /\ held' = r.ret
             /\ queue' = r.queue
    /\ ncalls' = ncalls + 1
    /\ UNCHANGED <<task, device, splats, seen, loader>>

\* thread_nums is a JitTensor<R, u32, 1>.
CreateDispatchBuffer ==
    /\ ncalls < MaxCalls
    /\ held # NoTensor
    /\ held.elem = "u32"
    /\ Len(held.shape) = 1
    /\ \E wg_size \in WgSizes :
          LET r == create_dispatch_buffer(held, wg_size, queue)
          IN /\ call' = [fn |-> "create_dispatch_buffer", thread_nums |-> held,
                         wg_size |-> wg_size, ret |-> r.ret]
             /\ held' = r.ret
             /\ queue' = r.queue
    /\ ncalls' = ncalls + 1
    /\ UNCHANGED <<task, device, splats, seen, loader>>

\* The launch that consumes a dispatch buffer: the caller submits the real
\* kernel with CubeCount::Dynamic over the buffer create_dispatch_buffer
\* returned, on the same client.
Launch ==
    /\ ncalls < MaxCalls
    /\ call.fn = "create_dispatch_buffer"
    /\ queue' = client_execute(held.client, "Consumer",
                               [kind |-> "Dynamic", handle |-> held.handle],
                               <<call.thread_nums.handle>>, queue)
    /\ call' = [fn |-> "execute", count |-> held]
    /\ ncalls' = ncalls + 1
    /\ UNCHANGED <<task, device, held, splats, seen, loader>>

\* The caller starts on one of the devices with nothing submitted.
Init ==
    /\ call = NoCall
    /\ task = NoTask
    /\ queue = <<>>
    /\ device \in Devices
    /\ held = NoTensor
    /\ ncalls = 0
    /\ splats = NoSplats
    /\ seen = NoSplats
    /\ loader = NoLoader

Next ==
    \/ CreateTensor
    \/ CreateUniformBuffer
    \/ BitcastTensor
    \/ CreateDispatchBuffer
    \/ Launch

Spec == Init /\ [][Next]_vars

(***************************************************************************)
(* Claims about the typed buffers.                                         *)
(***************************************************************************)
\* A step that is one call of the library function fn.
CallOf(fn) == ncalls' = ncalls + 1 /\ call'.fn = fn

\* C6 (as claimed): create_uniform_buffer fails with a precondition
\* violation whenever the byte length of the packed value is not a multiple
\* of 4; it never returns a buffer for such a value.
C6_UnalignedValueFails ==
    (call.fn = "create_uniform_buffer" /\ Len(bytes_of(call.val)) % 4 # 0)
        => call.ret = Panic

\* C7 (as claimed): for every buffer create_uniform_buffer returns, the
\* uploaded allocation holds exactly the value's raw bytes, its byte length
\* is a multiple of 4, and the element count of the shape times 4 equals
\* that byte length.
C7_UniformBufferSizeInvariant ==
    (call.fn = "create_uniform_buffer" /\ call.ret # Panic) =>
        LET upload == queue[call.ret.handle]
        IN /\ upload.op = "create"
           /\ upload.data = bytes_of(call.val)
           /\ alloc_len(queue, call.ret.handle) % 4 = 0
           /\ call.ret.shape[1] * 4 = alloc_len(queue, call.ret.handle)

\* C8: bitcast_tensor returns a typed buffer on the same allocation
\* (handle), client and device as its input, with the same shape and
\* strides; only the element-type tag differs (it is EOut), and the call
\* submits nothing to the compute client: no allocation, upload or kernel.
C8_BitcastIsAView ==
    [][CallOf("bitcast_tensor") =>
          /\ call'.tensor = held
          /\ call'.ret.handle = held.handle
          /\ call'.ret.client = held.client
          /\ call'.ret.device = held.device
          /\ call'.ret.shape = held.shape
          /\ call'.ret.strides = held.strides
          /\ call'.ret.elem = call'.EOut
          /\ call'.ret = [held EXCEPT !.elem = call'.EOut]
          /\ queue' = queue]_vars

\* C8 witness: the f32 [1000, 3] tensor reinterpreted as u32, with only its
\* own allocation in the queue.
C8_Witness ==
    /\ call.fn = "bitcast_tensor"
    /\ call.tensor.elem = "f32"
    /\ call.tensor.shape = <<1000, 3>>
    /\ call.ret.elem = "u32"
    /\ call.ret.handle = call.tensor.handle
    /\ Len(queue) = 1

\* The bytes of one element and the number of elements of a shape, stated
\* apart from the model's size_of and num_elements.
ElemBytes == [f32 |-> 4, u32 |-> 4, f16 |-> 2]
Elements(shape) ==
    IF Len(shape) = 0 THEN 1
    ELSE IF Len(shape) = 1 THEN shape[1]
    ELSE shape[1] * shape[2]

\* C9: create_tensor requests from the compute client exactly one
\* allocation, of (product of the shape's dimensions) * size_of(element
\* type) bytes, and the returned typed buffer has the requested shape;
\* shape [1000, 3] with 4-byte elements requests exactly 12000 bytes.
C9_CreateTensorAllocatesOnce ==
    [][CallOf("create_tensor") =>
          /\ queue' = Append(queue,
                [op |-> "empty", client |-> client_of(device),
                 size |-> Elements(call'.shape) * ElemBytes[call'.E]])
          /\ call'.ret.shape = call'.shape
          /\ call'.ret.elem = call'.E
          /\ call'.ret.handle = Len(queue')
          /\ (call'.shape = <<1000, 3>> /\ call'.E \in {"f32", "u32"})
                => queue'[Len(queue')].size = 12000]_vars

\* C9 witness: shape [1000, 3] of f32 allocated after an earlier upload.
C9_Witness ==
    /\ call.fn = "create_tensor"
    /\ call.shape = <<1000, 3>>
    /\ call.E = "f32"
    /\ Len(queue) = 2
    /\ queue[2] = [op |-> "empty", client |-> client_of(device), size |-> 12000]
    /\ call.ret.handle = 2

\* The u32 stored little-endian at word i of a byte sequence.
WordAt(bytes, i) ==
    bytes[4 * i - 3] + 256 * bytes[4 * i - 2]
        + 65536 * bytes[4 * i - 1] + 16777216 * bytes[4 * i]

HostSyncOps == {"read", "sync"}

\* C10: one call of create_dispatch_buffer submits to the compute client,
\* in this order, (1) an upload of a uniform holding the three
\* workgroup-size values, (2) an allocation of a 3-element output buffer,
\* (3) exactly one kernel execution with static dispatch shape (1,1,1), and
\* returns the output buffer; it submits no readback or synchronization, so
\* a consuming launch submitted afterwards through the same client is
\* queued after the producing kernel.
C10_DispatchBufferOrder ==
    /\ [][CallOf("create_dispatch_buffer") =>
            LET n == Len(queue)
            IN /\ Len(queue') = n + 3
               /\ SubSeq(queue', 1, n) = queue
               /\ queue'[n + 1].op = "create"
               /\ Len(queue'[n + 1].data) = 12
               /\ \A i \in 1..3 : WordAt(queue'[n + 1].data, i) = call'.wg_size[i]
               /\ queue'[n + 2] = [op |-> "empty", client |-> held.client, size |-> 12]
               /\ queue'[n + 3].op = "execute"
               /\ queue'[n + 3].kernel = "CreateDispatchBuffer"
               /\ queue'[n + 3].count = [kind |-> "Static", x |-> 1, y |-> 1, z |-> 1]
               /\ \A i \in n + 1..n + 3 :
                     /\ queue'[i].op \notin HostSyncOps
                     /\ queue'[i].client = held.client
               /\ call'.ret.handle = n + 2
               /\ call'.ret.shape = <<3>>
               /\ call'.ret.elem = "u32"]_vars
    /\ [](\A i \in 1..Len(queue) :
            (queue[i].op = "execute" /\ queue[i].count.kind = "Dynamic") =>
                \E j \in 1..(i - 1) :
                    /\ queue[j].op = "execute"
                    /\ queue[j].kernel = "CreateDispatchBuffer"
                    /\ queue[j].client = queue[i].client
                    /\ queue[j].bindings[3] = queue[i].count.handle
                    /\ \A k \in j..i : queue[k].op \notin HostSyncOps)

\* C10 witness: an indirect dispatch for workgroup size (256,1,1) over an
\* uploaded thread count, followed by the consuming launch.
C10_Witness ==
    /\ Len(queue) = 5
    /\ queue[1].op = "create"
    /\ queue[2].op = "create"
    /\ queue[2].data = <<0, 1, 0, 0, 1, 0, 0, 0, 1, 0, 0, 0>>
    /\ queue[3].op = "empty"
    /\ queue[4].op = "execute"
    /\ queue[4].kernel = "CreateDispatchBuffer"
    /\ queue[5].op = "execute"
    /\ queue[5].count = [kind |-> "Dynamic", handle |-> 3]

\* C11: the kernel execution create_dispatch_buffer submits binds exactly
\* three buffers in positional order: first the workgroup-size uniform
\* buffer, then the caller's thread-count buffer, then the output buffer;
\* the buffer returned to the caller is on the same allocation as the one
\* bound third (a clone of the handle, not a copy of the data).
C11_DispatchBindings ==
    [][CallOf("create_dispatch_buffer") =>
          LET n == Len(queue)
              launch == queue'[Len(queue')]
          IN /\ launch.op = "execute"
             /\ launch.kernel = "CreateDispatchBuffer"
             /\ Len(launch.bindings) = 3
             /\ queue'[launch.bindings[1]].op = "create"
             /\ launch.bindings[1] > n
             /\ \A i \in 1..3 :
                   WordAt(queue'[launch.bindings[1]].data, i) = call'.wg_size[i]
             /\ launch.bindings[2] = held.handle
             /\ launch.bindings[2] = call'.thread_nums.handle
             /\ launch.bindings[2] <= n
             /\ queue'[launch.bindings[3]].op = "empty"
             /\ launch.bindings[3] > n
             /\ call'.ret.handle = launch.bindings[3]
             /\ Cardinality({i \in n + 1..Len(queue') :
                               queue'[i].op \in {"empty", "create"}}) = 2]_vars

\* C11 witness: the dispatch over a thread-count tensor allocated second,
\* after an unrelated upload: the bindings are uniform 3, thread count 2,
\* output 4, and the caller gets the tensor on allocation 4.
C11_Witness ==
    /\ call.fn = "create_dispatch_buffer"
    /\ call.thread_nums.handle = 2
    /\ Len(queue) = 5
    /\ queue[5].op = "execute"
    /\ queue[5].bindings = <<3, 2, 4>>
    /\ call.ret.handle = 4
    /\ held = call.ret

(***************************************************************************)
(* Claims about compile.                                                   *)
(***************************************************************************)
IsCompiledKernel(ret) == ret # Panic

\* C12 (as claimed): module_to_compiled panics when the generated module
\* fails validation, returning neither a CompiledKernel nor an error; for a
\* module that validates it returns a CompiledKernel whose workgroup size is
\* the kernel's WORKGROUP_SIZE and whose shared-memory requirement is 0.
C12_Original ==
    call.fn = "compile" =>
        /\ ~call.module.validates => call.ret = Panic
        /\ call.module.validates =>
              /\ IsCompiledKernel(call.ret)
              /\ call.ret.cube_dim.x = WORKGROUP_SIZE(task.kernel)[1]
              /\ call.ret.cube_dim.y = WORKGROUP_SIZE(task.kernel)[2]
              /\ call.ret.cube_dim.z = WORKGROUP_SIZE(task.kernel)[3]
              /\ call.ret.shared_mem_bytes = 0

\* C12 (amended): module_to_compiled panics when the module fails
\* validation, and also when a module that validates cannot be converted to
\* WGSL text; for a module that validates and converts it returns a
\* CompiledKernel with the kernel's WORKGROUP_SIZE and shared memory 0.
C12_CompilePanicsOrReturnsKernel ==
    call.fn = "compile" =>
        /\ ~call.module.validates => call.ret = Panic
        /\ (call.module.validates /\ ~call.module.writes) => call.ret = Panic
        /\ (call.module.validates /\ call.module.writes) =>
              /\ IsCompiledKernel(call.ret)
              /\ call.ret.cube_dim.x = WORKGROUP_SIZE(task.kernel)[1]
              /\ call.ret.cube_dim.y = WORKGROUP_SIZE(task.kernel)[2]
              /\ call.ret.cube_dim.z = WORKGROUP_SIZE(task.kernel)[3]
              /\ call.ret.shared_mem_bytes = 0

\* C12 witness: a Rasterize variant whose module validates and is written,
\* compiled with workgroup size (16,16,1).
C12_Witness ==
    /\ call.fn = "compile"
    /\ call.module.validates
    /\ call.module.writes
    /\ task.flags = <<TRUE>>
    /\ call.ret # Panic
    /\ call.ret.cube_dim = [x |-> 16, y |-> 16, z |-> 1]
    /\ call.ret.shared_mem_bytes = 0

(***************************************************************************)
(* The Splats model of src/gaussian_splats.rs: its spherical-harmonics     *)
(* degrees and the statistics update_rolling_statistics keeps. A tensor of *)
(* shape [n] is a sequence of length n; radii are whole pixels.            *)
(* seen records what was done to the model since Splats::new: the degree   *)
(* it started with, the calls made, and per Gaussian the largest radius    *)
(* rendered so far and the number of renders it was visible in.            *)
(***************************************************************************)
MaxPoints == 2       \* num_points ranges over 1..MaxPoints
MaxShDegree == 2     \* max_sh_degree and the initial active_sh_degree range over 0..MaxShDegree
MaxSplatCalls == 3   \* at most MaxSplatCalls calls are made on the model

RadiiVals == {0, 1, 3}

\* Tensor::zeros([n])
zeros(n) == [i \in 1..n |-> 0]

\* Splats::new(num_points, aabb_scale, max_sh_degree, active_sh_degree, device)
Splats_new(num_points, max_sh_degree, active_sh_degree) ==
    [num_points |-> num_points,
     active_sh_degree |-> active_sh_degree,
     max_sh_degree |-> max_sh_degree,
     max_radii_2d |-> zeros(num_points),
     xyz_gradient_accum |-> zeros(num_points),
     denom |-> zeros(num_points)]

oneup_sh_degree_unchecked(sp) ==
    [sp EXCEPT !.active_sh_degree = @ + 1]

\* Splats::oneup_sh_degree
oneup_sh_degree(sp) ==
    IF sp.active_sh_degree < sp.max_sh_degree
    THEN [sp EXCEPT !.active_sh_degree = @ + 1]
    ELSE sp

\* Tensor::greater_elem(0.0)
greater_elem_0(t) == [i \in 1..Len(t) |-> t[i] > 0]

\* Tensor::cat(vec![a.unsqueeze(), b.unsqueeze()], 0).max_dim(0): the
\* element-wise maximum of the two rows.
cat_max_dim(a, b) == [i \in 1..Len(a) |-> IF a[i] >= b[i] THEN a[i] ELSE b[i]]

\* Tensor::mask_where(self, mask, value): value where the mask is true, self
\* elsewhere.
mask_where(self, mask, value) ==
    [i \in 1..Len(self) |-> IF mask[i] THEN value[i] ELSE self[i]]

\* Tensor<Bool>::float(): 1.0 for true, 0.0 for false.
bool_float(mask) == [i \in 1..Len(mask) |-> IF mask[i] THEN 1 ELSE 0]

tensor_add(a, b) == [i \in 1..Len(a) |-> a[i] + b[i]]

update_rolling_statistics_count_all(sp, radii) ==
    [sp EXCEPT !.denom = [i \in 1..Len(radii) |-> @[i] + 1]]

\* Splats::update_rolling_statistics(render_pkg), radii = render_pkg.radii
update_rolling_statistics(sp, radii) ==
    LET visible_mask == greater_elem_0(radii)
    IN [sp EXCEPT
          !.max_radii_2d = mask_where(radii, visible_mask,
                                      cat_max_dim(radii, sp.max_radii_2d)),
          !.denom = tensor_add(sp.denom, bool_float(visible_mask))]

SplatCalls == seen.oneups + seen.updates

OneupShDegree ==
    /\ splats # NoSplats
    /\ SplatCalls < MaxSplatCalls
    /\ splats' = oneup_sh_degree(splats)
    /\ seen' = [seen EXCEPT !.oneups = @ + 1]
    /\ call' = [fn |-> "oneup_sh_degree"]
    /\ UNCHANGED <<task, queue, device, held, ncalls, loader>>

UpdateRollingStatistics ==
    /\ splats # NoSplats
    /\ SplatCalls < MaxSplatCalls
    /\ \E radii \in [1..splats.num_points -> RadiiVals] :
          /\ splats' = update_rolling_statistics(splats, radii)
          /\ seen' = [seen EXCEPT
                !.updates = @ + 1,
                !.max_radius = [i \in 1..Len(radii) |->
                                  IF radii[i] > @[i] THEN radii[i] ELSE @[i]],
                !.visible = [i \in 1..Len(radii) |->
                                  IF radii[i] > 0 THEN @[i] + 1 ELSE @[i]]]
          /\ call' = [fn |-> "update_rolling_statistics", radii |-> radii]
    /\ UNCHANGED <<task, queue, device, held, ncalls, loader>>

\* A model fresh from Splats::new.
InitSplats ==
    /\ call = NoCall
    /\ task = NoTask
    /\ queue = <<>>
    /\ device = NoDevice
    /\ held = NoTensor
    /\ ncalls = 0
    /\ loader = NoLoader
    /\ \E n \in 1..MaxPoints, max \in 0..MaxShDegree, active \in 0..MaxShDegree :
          /\ splats = Splats_new(n, max, active)
          /\ seen = [start_active |-> active, start_max |-> max,
                     oneups |-> 0, updates |-> 0,
                     max_radius |-> zeros(n), visible |-> zeros(n)]

NextSplats == OneupShDegree \/ UpdateRollingStatistics

SpecSplats == InitSplats /\ [][NextSplats]_vars

(***************************************************************************)
(* Claims about the Splats model.                                          *)
(***************************************************************************)
Points == 1..splats.num_points

\* C13 (as claimed): after any sequence of update_rolling_statistics calls
\* max_radii_2d[i] is the maximum projected radius of Gaussian i over all
\* renders seen so far, so that no call lowers it, whether or not Gaussian
\* i is visible in that render.
C13_MaxRadiiIsRunningMax ==
    splats # NoSplats =>
        \A i \in Points : splats.max_radii_2d[i] = seen.max_radius[i]

\* C14: after any sequence of update_rolling_statistics calls on a model
\* made by Splats::new, denom[i] is the number of those calls in which
\* Gaussian i was visible (radius > 0); one call adds exactly 1 to denom[i]
\* when Gaussian i is visible and leaves it unchanged otherwise, so denom
\* never decreases.
C14_DenomCountsVisibleRenders ==
    /\ [](splats # NoSplats => \A i \in Points : splats.denom[i] = seen.visible[i])
    /\ [][(splats # NoSplats) =>
            \A i \in Points :
               /\ splats'.denom[i] >= splats.denom[i]
               /\ (seen'.updates = seen.updates + 1) =>
                     /\ call'.radii[i] > 0 => splats'.denom[i] = splats.denom[i] + 1
                     /\ call'.radii[i] <= 0 => splats'.denom[i] = splats.denom[i]]_vars

\* C14 witness: two renders, Gaussian 1 visible in both, Gaussian 2 in none.
C14_Witness ==
    /\ splats # NoSplats
    /\ splats.num_points = 2
    /\ seen.updates = 2
    /\ splats.denom = <<2, 0>>
    /\ call.fn = "update_rolling_statistics"
    /\ call.radii = <<3, 0>>

Min(a, b) == IF a <= b THEN a ELSE b

\* C15: for a model whose active_sh_degree starts <= max_sh_degree,
\* active_sh_degree <= max_sh_degree holds after any sequence of
\* oneup_sh_degree calls: a call raises active_sh_degree by exactly 1 when
\* it is below max_sh_degree, changes nothing once it equals max_sh_degree,
\* and never changes max_sh_degree; after max_sh_degree calls from 0 the
\* value stays at max_sh_degree.
C15_ShDegreeBounded ==
    /\ []((splats # NoSplats /\ seen.start_active <= seen.start_max) =>
            /\ splats.active_sh_degree <= splats.max_sh_degree
            /\ splats.active_sh_degree =
                  Min(splats.max_sh_degree, seen.start_active + seen.oneups)
            /\ (seen.start_active = 0 /\ seen.oneups >= splats.max_sh_degree)
                  => splats.active_sh_degree = splats.max_sh_degree)
    /\ [][(splats # NoSplats) =>
            /\ splats'.max_sh_degree = splats.max_sh_degree
            /\ (seen'.oneups = seen.oneups + 1) =>
                  /\ splats.active_sh_degree < splats.max_sh_degree
                        => splats'.active_sh_degree = splats.active_sh_degree + 1
                  /\ splats.active_sh_degree = splats.max_sh_degree
                        => splats' = splats]_vars

\* C15 witness: from degree 0 with max_sh_degree 2, three calls: the third
\* one found the degree at its maximum and left it there.
C15_Witness ==
    /\ splats # NoSplats
    /\ seen.start_active = 0
    /\ splats.max_sh_degree = 2
    /\ seen.oneups = 3
    /\ splats.active_sh_degree = 2

(***************************************************************************)
(* The dataset stream of crates/brush-dataset/src/colmap.rs:               *)
(* read_dataset_views maps the stream of loaded views, with its position,  *)
(* to a stream of Datasets. A view is named by a number; source is what    *)
(* the underlying stream (stream_fut_parallel over the handles of          *)
(* read_views) yields, in the order it yields it: Ok(view) or Err.         *)
(***************************************************************************)
MaxViews == 3        \* the underlying stream yields at most MaxViews items
MaxPeriod == 2       \* eval_split_every is None or Some(0..MaxPeriod)

None == [some |-> FALSE]
Some(x) == [some |-> TRUE, value |-> x]

ViewResults == [ok : BOOLEAN, view : 1..MaxViews]

\* Every handle loads another image.
Sources ==
    {src \in SeqsUpTo(ViewResults, MaxViews) :
        \A i, j \in 1..Len(src) : src[i].view = src[j].view => i = j}

EvalSplits == {None} \cup {Some(period) : period \in 0..MaxPeriod}

Vec3_ZERO == <<0, 0, 0>>

\* Dataset::from_views(train_views, eval_views, background)
Dataset_from_views(train_views, eval_views, background) ==
    [ok |-> TRUE, train |-> train_views, eval |-> eval_views,
     background |-> background]

Err == [ok |-> FALSE]

map_closure_from_one(ld, i, view) ==
    LET eval_split_every == ld.eval_split_every
        to_eval == eval_split_every.some /\ (i + 1) % eval_split_every.value = 0
    IN IF eval_split_every.some /\ eval_split_every.value = 0
       THEN [ld EXCEPT !.state = "panicked"]
       ELSE IF ~view.ok
       THEN [ld EXCEPT !.emitted = Append(@, Err)]
       ELSE LET train == IF to_eval THEN ld.train_views
                         ELSE Append(ld.train_views, view.view)
                eval == IF to_eval THEN Append(ld.eval_views, view.view)
                        ELSE ld.eval_views
            IN [ld EXCEPT !.train_views = train, !.eval_views = eval,
                          !.emitted = Append(@, Dataset_from_views(train, eval, Vec3_ZERO))]

\* The closure given to stream.enumerate().map: i % eval_period is computed
\* first (a period of 0 panics), then view? returns the load error as the
\* stream's item without pushing anything, else the view is pushed and a
\* Dataset of clones of both lists is the item.
map_closure(ld, i, view) ==
    LET eval_split_every == ld.eval_split_every
        to_eval == eval_split_every.some /\ i % eval_split_every.value = 0
    IN IF eval_split_every.some /\ eval_split_every.value = 0
       THEN [ld EXCEPT !.state = "panicked"]
       ELSE IF ~view.ok
       THEN [ld EXCEPT !.emitted = Append(@, Err)]
       ELSE LET train == IF to_eval THEN ld.train_views
                         ELSE Append(ld.train_views, view.view)
                eval == IF to_eval THEN Append(ld.eval_views, view.view)
                        ELSE ld.eval_views
            IN [ld EXCEPT !.train_views = train, !.eval_views = eval,
                          !.emitted = Append(@, Dataset_from_views(train, eval, Vec3_ZERO))]

\* read_dataset_views(archive, load_args), once read_views has returned the
\* handles: the stream and the two empty lists its closure owns.
read_dataset_views(handles, eval_split_every) ==
    [state |-> "streaming", eval_split_every |-> eval_split_every,
     source |-> handles, pos |-> 0,
     train_views |-> <<>>, eval_views |-> <<>>, emitted |-> <<>>]

\* The consumer polls the next item: enumerate numbers the items from 0.
StreamNext ==
    /\ loader # NoLoader
    /\ loader.state = "streaming"
    /\ loader.pos < Len(loader.source)
    /\ loader' = [map_closure(loader, loader.pos, loader.source[loader.pos + 1])
                    EXCEPT !.pos = @ + 1]
    /\ call' = [fn |-> "stream_next"]
    /\ UNCHANGED <<task, queue, device, held, ncalls, splats, seen>>

InitDataset ==
    /\ call = NoCall
    /\ task = NoTask
    /\ queue = <<>>
    /\ device = NoDevice
    /\ held = NoTensor
    /\ ncalls = 0
    /\ splats = NoSplats
    /\ seen = NoSplats
    /\ \E handles \in Sources, eval_split_every \in EvalSplits :
          loader = read_dataset_views(handles, eval_split_every)

NextDataset == StreamNext

SpecDataset == InitDataset /\ [][NextDataset]_vars

(***************************************************************************)
(* Claims about the dataset stream.                                        *)
(***************************************************************************)
Range(seq) == {seq[i] : i \in 1..Len(seq)}

\* The position (from 0) at which the underlying stream yielded a view.
PositionOf(view) == CHOOSE i \in 0..(Len(loader.source) - 1) : loader.source[i + 1].view = view

InStreamOrder(views) ==
    \A a, b \in 1..Len(views) : a < b => PositionOf(views[a]) < PositionOf(views[b])

\* Whether the view at position i belongs to the eval list.
InEval(i) ==
    loader.eval_split_every.some /\ i % loader.eval_split_every.value = 0

\* next holds the views of prev and one more, pushed at the end of one list.
ExtendsByOne(prev, next) ==
    \/ /\ Len(next.train) = Len(prev.train) + 1
       /\ SubSeq(next.train, 1, Len(prev.train)) = prev.train
       /\ next.eval = prev.eval
    \/ /\ Len(next.eval) = Len(prev.eval) + 1
       /\ SubSeq(next.eval, 1, Len(prev.eval)) = prev.eval
       /\ next.train = prev.train

IsOk(item) == item.ok
Datasets == SelectSeq(loader.emitted, IsOk)
EmptyDataset == Dataset_from_views(<<>>, <<>>, Vec3_ZERO)

\* C16: when the views at stream positions 0..k all loaded, the k-th item is
\* a Dataset holding exactly those k+1 views, each in exactly one of train
\* and eval and in stream order: with eval_split_every = Some(p), p >= 1, the
\* view at position i is in eval iff i mod p = 0, with None every view is in
\* train. Every emitted Dataset extends the one before it by exactly one
\* view.
C16_DatasetsPartitionTheViews ==
    (/\ loader # NoLoader
     /\ loader.state = "streaming"
     /\ loader.eval_split_every.some => loader.eval_split_every.value >= 1) =>
        /\ Len(loader.emitted) = loader.pos
        /\ (loader.pos >= 1 /\ \A i \in 1..loader.pos : loader.source[i].ok) =>
              LET k == loader.pos - 1
                  dataset == loader.emitted[loader.pos]
              IN /\ dataset.ok
                 /\ Len(dataset.train) + Len(dataset.eval) = k + 1
                 /\ Range(dataset.train) \cap Range(dataset.eval) = {}
                 /\ \A i \in 0..k :
                       LET view == loader.source[i + 1].view
                       IN /\ InEval(i) => view \in Range(dataset.eval)
                          /\ ~InEval(i) => view \in Range(dataset.train)
                 /\ InStreamOrder(dataset.train)
                 /\ InStreamOrder(dataset.eval)
        /\ \A n \in 1..Len(Datasets) :
              ExtendsByOne(IF n = 1 THEN EmptyDataset ELSE Datasets[n - 1], Datasets[n])

\* C16 witness: three views loaded with eval_split_every = Some(2), yielded
\* in the order 2, 1, 3: positions 0 and 2 are in eval, position 1 in train.
C16_Witness ==
    /\ loader # NoLoader
    /\ loader.eval_split_every = Some(2)
    /\ loader.pos = 3
    /\ Len(loader.emitted) = 3
    /\ loader.source = <<[ok |-> TRUE, view |-> 2], [ok |-> TRUE, view |-> 1],
                         [ok |-> TRUE, view |-> 3]>>
    /\ loader.emitted[3].train = <<1>>
    /\ loader.emitted[3].eval = <<2, 3>>

====
